---- MODULE Spec2Model ----
(***************************************************************************)
(* Model of coffee_tia_rosa.py: the CoffeeSystem store (products,          *)
(* customers, orders kept in insertion-ordered dicts), its whole-file JSON *)
(* persistence, order placement and the daily sales summary.               *)
(*                                                                         *)
(* Money is counted in thousandths of the currency unit ("mills"), so that *)
(* round(x, 2) is a real operation: 2503 is 2.503 and rounds to 2500.      *)
(* A Python dict is a sequence of [key, val] entries in insertion order.   *)
(* Of the text fields no operation reads (name, description, category,     *)
(* phone, email) the model carries the name.                               *)
(* A string that the code inspects (a timestamp) is a sequence of          *)
(* characters; an opaque string (an id, a name) is a TLA+ string.          *)
(***************************************************************************)
EXTENDS Integers, Sequences, FiniteSets

VARIABLES
    products,   \* CoffeeSystem.products : dict key -> Product
    customers,  \* CoffeeSystem.customers: dict key -> Customer
    orders,     \* CoffeeSystem.orders   : dict key -> order dict
    files,      \* products.json, customers.json, orders.json
    objs,       \* the Order objects the caller holds after placing them
    gen,        \* how many ids uuid4 has handed out, per kind
    placed,     \* number of place_order calls that returned
    floorSum,   \* history: per customer, the sum of floor(total) of its orders
    last        \* the last call: its name, its outcome, its result

vars == <<products, customers, orders, files, objs, gen, placed, floorSum, last>>

----------------------------------------------------------------------------
(* Bounds of the model *)

MaxOrders == 2       \* Order objects created, with the store fixed
MaxStoreOrders == 1  \* Order objects created, with the store changing
MaxItems == 2        \* line items of one order
MaxPlaced == 2       \* place_order calls that return

(* The ids uuid4 hands out, in the order it hands them out, and two ids it
   never hands out. *)
ProductIds == <<"p1">>
CustomerIds == <<"c1">>
ForeignProductId == "px"
ForeignCustomerId == "cx"
None == "None"

Prices == {2503}                \* a product is added at 2.503
UnitPrices == {1503}            \* add_item is given 1.503 a unit
Stocks == {2}
Quantities == {-1, 2}
Days == {<<"0", "1">>, <<"0", "2">>}
ClockTime == <<"T", "9">>

----------------------------------------------------------------------------
(* Numbers *)

\* round(x, 2) on a value given in mills. A tie (last digit 5) goes to the
\* even cent, as Python's round does on an exactly representable value; the
\* inputs of the model produce no tie.
RoundCents(m) ==
    LET q == m \div 10
        r == m % 10
    IN  IF r < 5 THEN 10 * q
        ELSE IF r > 5 THEN 10 * (q + 1)
        ELSE IF q % 2 = 0 THEN 10 * q ELSE 10 * (q + 1)

\* int(x) on a float given in mills: truncation towards zero, in whole units.
IntOf(m) == IF m >= 0 THEN m \div 1000 ELSE -((-m) \div 1000)

\* math.floor of a value given in mills, in whole units.
Floor(m) == m \div 1000

RECURSIVE SumSeq(_)
SumSeq(s) == IF s = <<>> THEN 0 ELSE s[1] + SumSeq(Tail(s))

----------------------------------------------------------------------------
(* Python dicts: insertion-ordered maps *)

Has(map, k) == \E i \in DOMAIN map : map[i].key = k

IndexOf(map, k) == CHOOSE i \in DOMAIN map : map[i].key = k

Get(map, k) == map[IndexOf(map, k)].val

\* map[k] = v : a present key keeps its position
Put(map, k, v) ==
    IF Has(map, k)
    THEN [map EXCEPT ![IndexOf(map, k)] = [key |-> k, val |-> v]]
    ELSE Append(map, [key |-> k, val |-> v])

Values(map) == [i \in DOMAIN map |-> map[i].val]

Keys(map) == {map[i].key : i \in DOMAIN map}

\* dict equality: same keys, same values, whatever the order
AsSet(map) == {map[i] : i \in DOMAIN map}

----------------------------------------------------------------------------
(* Product, Customer, Order *)

\* Product.__init__ (stock is always given as an int here, so int(stock) is stock)
Product(id, name, price, stock) ==
    [id |-> id, name |-> name, price |-> RoundCents(price), stock |-> stock]

ProductToDict(p) ==
    [id |-> p.id, name |-> p.name, price |-> p.price, stock |-> p.stock]

\* Product.from_dict: the constructor runs again, then the id is put back
ProductFromDict(d) ==
    [Product("fresh", d.name, d.price, d.stock) EXCEPT !.id = d.id]

Customer(id, name) == [id |-> id, name |-> name, points |-> 0]

CustomerToDict(c) == [id |-> c.id, name |-> c.name, points |-> c.points]

CustomerFromDict(d) ==
    [Customer("fresh", d.name) EXCEPT !.id = d.id, !.points = d.points]

Order(id, customer_id, created_at) ==
    [id |-> id, customer_id |-> customer_id, items |-> <<>>,
     created_at |-> created_at]

\* Order.add_item, as a function of the order
add_item(order, product_id, name, unit_price, qty) ==
    [order EXCEPT !.items = Append(@,
        [product_id |-> product_id,
         name |-> name,
         unit_price |-> RoundCents(unit_price),
         quantity |-> qty,
         subtotal |-> RoundCents(unit_price * qty)])]

Subtotals(items) == [i \in DOMAIN items |-> items[i].subtotal]

\* Order.total
total(order) == RoundCents(SumSeq(Subtotals(order.items)))

\* Order.to_dict: "items" is the order's own list, not a copy
OrderToDict(order) ==
    [id |-> order.id, customer_id |-> order.customer_id,
     items |-> order.items, created_at |-> order.created_at,
     total |-> total(order)]

----------------------------------------------------------------------------
(* Persistence *)

EmptyFiles == [products |-> <<>>, customers |-> <<>>, orders |-> <<>>]

\* What save_all writes for the given collections. json.dump followed by
\* json.load gives back the same lists of dicts for the values used here.
Serialize(ps, cs, os) ==
    [products |-> [i \in DOMAIN ps |-> ProductToDict(ps[i].val)],
     customers |-> [i \in DOMAIN cs |-> CustomerToDict(cs[i].val)],
     orders |-> Values(os)]

RECURSIVE LoadProducts(_, _)
LoadProducts(list, map) ==
    IF list = <<>> THEN map
    ELSE LET prod == ProductFromDict(Head(list))
         IN  LoadProducts(Tail(list), Put(map, prod.id, prod))

RECURSIVE LoadCustomers(_, _)
LoadCustomers(list, map) ==
    IF list = <<>> THEN map
    ELSE LET cus == CustomerFromDict(Head(list))
         IN  LoadCustomers(Tail(list), Put(map, cus.id, cus))

RECURSIVE LoadOrders(_, _)
LoadOrders(list, map) ==
    IF list = <<>> THEN map
    ELSE LoadOrders(Tail(list), Put(map, Head(list).id, Head(list)))

\* CoffeeSystem.__init__ + load_all: the collections of a fresh store
load_all(f) ==
    [products |-> LoadProducts(f.products, <<>>),
     customers |-> LoadCustomers(f.customers, <<>>),
     orders |-> LoadOrders(f.orders, <<>>)]

\* save_all: the store with its files rewritten
save_all(st) ==
    [st EXCEPT !.files = Serialize(st.products, st.customers, st.orders)]

----------------------------------------------------------------------------
(* Store operations, as functions of the store
   st = [products, customers, orders, files]; each gives the store after the
   call and the call's outcome. *)

Returned == "returned"

Outcome(st, outcome, at) == [st |-> st, outcome |-> outcome, at |-> at]

add_product(st, id, name, price, stock) ==
    LET p == Product(id, name, price, stock)
    IN  Outcome(save_all([st EXCEPT !.products = Put(@, p.id, p)]), Returned, 0)

\* The attributes of a Product: hasattr(p, k) for the names the model passes
ProductFields == {"id", "name", "price", "stock"}

\* for k, v in kwargs.items(): if hasattr(p, k): setattr(p, k, v)
RECURSIVE SetAttrs(_, _)
SetAttrs(p, kwargs) ==
    IF kwargs = <<>> THEN p
    ELSE LET k == Head(kwargs)[1]
             v == Head(kwargs)[2]
             q == IF k \in ProductFields THEN [p EXCEPT ![k] = v] ELSE p
         IN  SetAttrs(q, Tail(kwargs))

edit_product(st, product_id, kwargs) ==
    IF ~Has(st.products, product_id)
    THEN Outcome(st, "KeyError", 0)
    ELSE LET i == IndexOf(st.products, product_id)
         IN  Outcome(save_all([st EXCEPT !.products[i].val = SetAttrs(@, kwargs)]),
                     Returned, 0)

add_customer(st, id, name) ==
    LET c == Customer(id, name)
    IN  Outcome(save_all([st EXCEPT !.customers = Put(@, c.id, c)]), Returned, 0)

\* place_order, first loop: the first item that fails, if any
RECURSIVE CheckItems(_, _, _)
CheckItems(ps, items, i) ==
    IF i > Len(items) THEN [err |-> "none", at |-> 0]
    ELSE LET pid == items[i].product_id
             qty == items[i].quantity
         IN  IF ~Has(ps, pid) THEN [err |-> "KeyError", at |-> i]
             ELSE IF Get(ps, pid).stock < qty THEN [err |-> "ValueError", at |-> i]
             ELSE CheckItems(ps, items, i + 1)

\* place_order, second loop: self.products[pid].stock -= qty
RECURSIVE DeductItems(_, _, _)
DeductItems(ps, items, i) ==
    IF i > Len(items) THEN ps
    ELSE LET k == IndexOf(ps, items[i].product_id)
         IN  DeductItems([ps EXCEPT ![k].val.stock = @ - items[i].quantity],
                         items, i + 1)

\* A single loop that checks an item and deducts it before looking at the next
RECURSIVE CheckAndDeduct(_, _, _)
CheckAndDeduct(ps, items, i) ==
    IF i > Len(items) THEN [err |-> "none", at |-> 0, products |-> ps]
    ELSE LET pid == items[i].product_id
             qty == items[i].quantity
         IN  IF ~Has(ps, pid) THEN [err |-> "KeyError", at |-> i, products |-> ps]
             ELSE IF Get(ps, pid).stock < qty
                  THEN [err |-> "ValueError", at |-> i, products |-> ps]
             ELSE CheckAndDeduct(
                    [ps EXCEPT ![IndexOf(ps, pid)].val.stock = @ - qty], items, i + 1)

StockPassesInterleaved(ps, items) == CheckAndDeduct(ps, items, 1)

\* place_order, both loops: the error of the first, or the stock after the second
StockPasses(ps, items) ==
    LET chk == CheckItems(ps, items, 1)
    IN  IF chk.err # "none"
        THEN [err |-> chk.err, at |-> chk.at, products |-> ps]
        ELSE [err |-> "none", at |-> 0, products |-> DeductItems(ps, items, 1)]

\* place_order, loyalty points: 1 point per currency unit spent
AddPoints(cs, order) ==
    IF order.customer_id # None /\ Has(cs, order.customer_id)
    THEN [cs EXCEPT ![IndexOf(cs, order.customer_id)].val.points =
                        @ + IntOf(total(order))]
    ELSE cs

place_order(st, order) ==
    LET pass == StockPasses(st.products, order.items)
    IN  IF pass.err # "none"
        THEN Outcome([st EXCEPT !.products = pass.products], pass.err, pass.at)
        ELSE Outcome(save_all([st EXCEPT
                        !.products = pass.products,
                        !.orders = Put(@, order.id, OrderToDict(order)),
                        !.customers = AddPoints(@, order)]),
                     Returned, 0)

\* str.startswith
StartsWith(s, prefix) ==
    /\ Len(prefix) <= Len(s)
    /\ SubSeq(s, 1, Len(prefix)) = prefix

\* s.split("T")[0]
RECURSIVE BeforeT(_)
BeforeT(s) ==
    IF s = <<>> \/ Head(s) = "T" THEN <<>> ELSE <<Head(s)>> \o BeforeT(Tail(s))

HasT(s) == \E i \in DOMAIN s : s[i] = "T"

Target(date_iso) == IF HasT(date_iso) THEN BeforeT(date_iso) ELSE date_iso

\* A filter that keeps every order
MatchesAlways(o, target) == TRUE

\* created.startswith(target)
MatchesTarget(o, target) == StartsWith(o.created_at, target)

\* daily_sales with a date given
daily_sales(os, date_iso) ==
    LET target == Target(date_iso)
        found == SelectSeq(Values(os), LAMBDA o : MatchesTarget(o, target))
    IN  [date |-> target,
         orders |-> found,
         total |-> RoundCents(SumSeq([i \in DOMAIN found |-> found[i].total]))]

----------------------------------------------------------------------------
(* The state machine *)

St == [products |-> products, customers |-> customers, orders |-> orders,
       files |-> files]

NoRet == [date |-> <<>>, orders |-> <<>>, total |-> 0]

Call(op, outcome, at, arg, ret) ==
    [op |-> op, outcome |-> outcome, at |-> at, arg |-> arg, ret |-> ret]

\* The store after a call, and the record of the call
Becomes(r, op) ==
    /\ products' = r.st.products
    /\ customers' = r.st.customers
    /\ orders' = r.st.orders
    /\ files' = r.st.files
    /\ last' = Call(op, r.outcome, r.at, <<>>, NoRet)

ProductName == "cafe"
CustomerName == "ana"
EditStocks == {0}
EditPrices == {2503}

\* The keyword arguments edit_product is called with: any one field, or a
\* field and the id, or a name no Product has
KwargPairs ==
    ({"id"} \X {ForeignProductId})
    \cup ({"price"} \X EditPrices)
    \cup ({"stock"} \X EditStocks)
    \cup ({"color"} \X {"red"})

Kwargs ==
    {<<>>} \cup {<<p>> : p \in KwargPairs}
    \cup {<<p, q>> : p \in KwargPairs \ ({"id"} \X {ForeignProductId}),
                     q \in {"id"} \X {ForeignProductId}}

\* The line items a caller may add: a product of the store or an unknown one
ItemInputs ==
    [product_id : Keys(products) \cup {ForeignProductId},
     unit_price : UnitPrices,
     quantity : Quantities]

RECURSIVE AddItems(_, _)
AddItems(order, inputs) ==
    IF inputs = <<>> THEN order
    ELSE AddItems(add_item(order, Head(inputs).product_id, ProductName,
                           Head(inputs).unit_price, Head(inputs).quantity),
                  Tail(inputs))

\* The days of the orders a date is asked for, a month, and a full timestamp
DateInputs == {<<"0", "1">>, <<"0">>, <<"0", "2">> \o ClockTime}

Init ==
    /\ products = <<>>
    /\ customers = <<>>
    /\ orders = <<>>
    /\ files = EmptyFiles
    /\ objs = <<>>
    /\ gen = [p |-> 0, c |-> 0, o |-> 0]
    /\ placed = 0
    /\ floorSum = [c \in {CustomerIds[i] : i \in DOMAIN CustomerIds} |-> 0]
    /\ last = Call("init", Returned, 0, <<>>, NoRet)

AddProduct ==
    /\ gen.p < Len(ProductIds)
    /\ \E price \in Prices, stock \in Stocks :
          Becomes(add_product(St, ProductIds[gen.p + 1], ProductName, price, stock),
                  "add_product")
    /\ gen' = [gen EXCEPT !.p = @ + 1]
    /\ UNCHANGED <<objs, placed, floorSum>>

EditProduct ==
    /\ \E pid \in Keys(products) \cup {ForeignProductId}, kwargs \in Kwargs :
          Becomes(edit_product(St, pid, kwargs), "edit_product")
    /\ UNCHANGED <<objs, gen, placed, floorSum>>

AddCustomer ==
    /\ gen.c < Len(CustomerIds)
    /\ Becomes(add_customer(St, CustomerIds[gen.c + 1], CustomerName), "add_customer")
    /\ gen' = [gen EXCEPT !.c = @ + 1]
    /\ UNCHANGED <<objs, placed, floorSum>>

\* The history of a place_order call that returned
Accrue(order) ==
    IF order.customer_id # None /\ Has(customers, order.customer_id)
    THEN [floorSum EXCEPT ![order.customer_id] = @ + Floor(total(order))]
    ELSE floorSum

\* The customer ids an order may carry: none, one of the store, an unknown one
AnyCustomer == {None, ForeignCustomerId} \cup Keys(customers)

\* A new Order, its add_item calls, then place_order. The caller keeps the
\* Order object if the call returned and drops it if the call raised.
PlaceNewOrder(maxOrders, cids, days) ==
    /\ gen.o < maxOrders
    /\ placed < MaxPlaced
    /\ \E cid \in cids, day \in days, n \in 0..MaxItems :
        \E inputs \in [1..n -> ItemInputs] :
          LET order == AddItems(Order(gen.o + 1, cid, day \o ClockTime), inputs)
              r == place_order(St, order)
          IN  /\ Becomes(r, "place_order")
              /\ IF r.outcome = Returned
                 THEN /\ objs' = Append(objs, order)
                      /\ gen' = [gen EXCEPT !.o = @ + 1]
                      /\ placed' = placed + 1
                      /\ floorSum' = Accrue(order)
                 ELSE UNCHANGED <<objs, gen, placed, floorSum>>

\* place_order again on an Order object that was placed before
PlaceOrderAgain ==
    /\ placed < MaxPlaced
    /\ \E i \in DOMAIN objs :
          LET r == place_order(St, objs[i])
          IN  /\ Becomes(r, "place_order")
              /\ IF r.outcome = Returned
                 THEN /\ placed' = placed + 1
                      /\ floorSum' = Accrue(objs[i])
                 ELSE UNCHANGED <<placed, floorSum>>
    /\ UNCHANGED <<objs, gen>>

\* add_item on an Order object that was placed: the stored dict's "items" is
\* the same list, so the stored dict shows the new item; nothing is saved
AddItemToPlaced ==
    /\ \E i \in DOMAIN objs, inp \in ItemInputs :
          /\ Len(objs[i].items) < MaxItems
          /\ LET order == add_item(objs[i], inp.product_id, ProductName,
                                   inp.unit_price, inp.quantity)
             IN  /\ objs' = [objs EXCEPT ![i] = order]
                 /\ orders' = [orders EXCEPT
                       ![IndexOf(orders, order.id)].val.items = order.items]
    /\ last' = Call("add_item", Returned, 0, <<>>, NoRet)
    /\ UNCHANGED <<products, customers, files, gen, placed, floorSum>>

DailySales ==
    /\ \E date_iso \in DateInputs :
          last' = Call("daily_sales", Returned, 0, date_iso,
                       daily_sales(orders, date_iso))
    /\ UNCHANGED <<products, customers, orders, files, objs, gen, placed, floorSum>>

\* The process ends and a new CoffeeSystem is constructed from the files
Restart ==
    /\ LET m == load_all(files)
       IN  /\ products' = m.products
           /\ customers' = m.customers
           /\ orders' = m.orders
    /\ objs' = <<>>
    /\ last' = Call("load_all", Returned, 0, <<>>, NoRet)
    /\ UNCHANGED <<files, gen, placed, floorSum>>

Next ==
    \/ AddProduct
    \/ EditProduct
    \/ AddCustomer
    \/ PlaceNewOrder(MaxStoreOrders, AnyCustomer, Days)
    \/ PlaceOrderAgain
    \/ AddItemToPlaced
    \/ DailySales
    \/ Restart

Spec == Init /\ [][Next]_vars

\* A store with a product in stock and a customer
StockedStore ==
    LET empty == [products |-> <<>>, customers |-> <<>>, orders |-> <<>>,
                  files |-> EmptyFiles]
        s1 == add_product(empty, ProductIds[1], ProductName,
                          CHOOSE p \in Prices : TRUE, CHOOSE n \in Stocks : TRUE).st
    IN  add_customer(s1, CustomerIds[1], CustomerName).st

InitOrders ==
    /\ products = StockedStore.products
    /\ customers = StockedStore.customers
    /\ orders = StockedStore.orders
    /\ files = StockedStore.files
    /\ objs = <<>>
    /\ gen = [p |-> 1, c |-> 1, o |-> 0]
    /\ placed = 0
    /\ floorSum = [c \in {CustomerIds[i] : i \in DOMAIN CustomerIds} |-> 0]
    /\ last = Call("add_customer", Returned, 0, <<>>, NoRet)

\* The same store under any sequence of place_order calls, for orders of one
\* day, each Order object being placed once or again
NextOrders ==
    \/ PlaceNewOrder(MaxOrders, AnyCustomer, {<<"0", "1">>})
    \/ PlaceOrderAgain

SpecOrders == InitOrders /\ [][NextOrders]_vars

\* The same store, orders of any day for no customer, and the sales of a day
NextSales ==
    \/ PlaceNewOrder(MaxOrders, {None}, Days)
    \/ DailySales

SpecSales == InitOrders /\ [][NextSales]_vars

----------------------------------------------------------------------------
(* Properties *)

StoreCalls == {"add_product", "edit_product", "add_customer", "place_order"}

StoreVars == <<products, customers, orders, files>>

PlaceOrderRaised ==
    /\ last.op = "place_order"
    /\ last.outcome \in {"KeyError", "ValueError"}

\* The quantity of product k over all line items of the stored orders
QtyOfItems(items, k) ==
    SumSeq([i \in DOMAIN items |->
              IF items[i].product_id = k THEN items[i].quantity ELSE 0])

QtyInOrders(os, k) ==
    SumSeq([i \in DOMAIN os |-> QtyOfItems(os[i].val.items, k)])

\* C1: starting from a store whose stock is non-negative, after any sequence
\* of place_order calls every product's stock is still non-negative.
C1_StockNeverNegative ==
    \A i \in DOMAIN products : products[i].val.stock >= 0

\* C2: a place_order call that raises for an unknown product id or for
\* insufficient stock leaves the products, the customers, the orders and the
\* files exactly as they were, wherever the failing item stands in the order.
C2_RaisingOrderChangesNothing ==
    [][PlaceOrderRaised' => UNCHANGED StoreVars]_vars

\* place_order raised on the second line item, after a first one that passed
C2_Witness ==
    /\ PlaceOrderRaised
    /\ last.at = 2
    /\ products # <<>>

\* C3: a customer's points are the initial points (0) plus the sum, over the
\* place_order calls that returned with this customer's id, of floor(total).
C3_PointsAreFloorSum ==
    \A i \in DOMAIN customers :
        customers[i].val.points = floorSum[customers[i].key]

\* C4: every customer's points are non-negative and never decrease from one
\* state to the next.
C4_PointsNeverDecrease ==
    [][\A k \in Keys(customers) :
          /\ Get(customers, k).points >= 0
          /\ Has(customers', k)
          /\ Get(customers', k).points >= Get(customers, k).points
          /\ Get(customers', k).points >= 0]_vars

\* C5: a stored order record is never changed by a later operation, and the
\* total of every stored order is the sum of the subtotals of its items.
C5_StoredOrdersImmutable ==
    /\ [][\A k \in Keys(orders) :
             Has(orders', k) /\ Get(orders', k) = Get(orders, k)]_vars
    /\ [](\A i \in DOMAIN orders :
             orders[i].val.total = SumSeq(Subtotals(orders[i].val.items)))

\* C6: every product stored under key k has id k, the id it was created with.
C6_ProductIdFixed ==
    \A i \in DOMAIN products : products[i].val.id = products[i].key

\* C7: saving the store and loading the files into a fresh store gives
\* product, customer and order collections equal to the ones saved.
C7_RoundTrip ==
    LET m == load_all(Serialize(products, customers, orders))
    IN  /\ AsSet(m.products) = AsSet(products)
        /\ AsSet(m.customers) = AsSet(customers)
        /\ AsSet(m.orders) = AsSet(orders)

\* The stored orders whose created_at starts with the given date
OrdersOn(date) ==
    {orders[i].val : i \in {j \in DOMAIN orders :
                              StartsWith(orders[j].val.created_at, date)}}

\* C8: daily_sales(date) returns exactly the stored orders whose created_at
\* starts with that date, each once, its total is the sum of their totals,
\* and the call changes no collection and no file.
C8_DailySalesExact ==
    /\ [](last.op = "daily_sales" =>
            LET r == last.ret
            IN  /\ ~HasT(last.arg) => r.date = last.arg
                /\ HasT(last.arg) => r.date \o <<"T">> = SubSeq(last.arg, 1, Len(r.date) + 1)
                /\ ~HasT(r.date)
                /\ {r.orders[j] : j \in DOMAIN r.orders} = OrdersOn(r.date)
                /\ Len(r.orders) = Cardinality(OrdersOn(r.date))
                /\ r.total = SumSeq([j \in DOMAIN r.orders |-> r.orders[j].total]))
    /\ [][last'.op = "daily_sales" => UNCHANGED StoreVars]_vars

\* daily_sales returned one of two stored orders
C8_Witness ==
    /\ last.op = "daily_sales"
    /\ Len(orders) = 2
    /\ Len(last.ret.orders) = 1
    /\ last.ret.total # 0

\* C9: when a store operation has returned or raised, the files hold the
\* serialization of the products, customers and orders in memory.
C9_FilesMatchMemory ==
    last.op \in StoreCalls => files = Serialize(products, customers, orders)

\* C10: after any sequence of place_order calls on the stocked store, the
\* stock removed from each product since the start is the quantity of that
\* product over all line items of the orders in the orders collection, and
\* every place_order call that returned has added exactly one order record.
C10_StockConservation ==
    /\ \A k \in Keys(products) :
          Get(StockedStore.products, k).stock - Get(products, k).stock
            = QtyInOrders(orders, k)
    /\ Len(orders) = placed

====
